---- MODULE Spec2Model ----
(***************************************************************************)
(* LeaderSync: the per-game leaderboard engine of src/utils/memory.ts      *)
(* (SkipList, WriteAheadLog, LeaderboardEngine) behind the POST /score     *)
(* handler of src/leaderboard-service/scoreIngestion.ts.                   *)
(*                                                                         *)
(* Text (user ids, game ids, WAL lines, file contents) is a sequence of    *)
(* one-character strings, so that formatting and parsing are computed.     *)
(***************************************************************************)
EXTENDS Integers, Sequences, FiniteSets, TLC

\* ------------------------------------------------------------------ bounds

\* Number of POST /score requests in one behaviour.
MaxRequests == 3
\* Largest score a request carries.
MaxScore == 1
\* Largest level randomLevel() is let to draw (the code allows maxLevel).
LevelCap == 1
\* Number of process kills in one behaviour.
MaxCrashes == 1
\* Number of injected appendFile faults in one behaviour.
MaxFaults == 1

\* ------------------------------------------------------- program constants

\* SkipList.maxLevel
maxLevel == 20
\* HTTP statuses sent by the handler; NoResponse: nothing was sent.
Accepted == 202
Unavailable == 503
BadRequest == 400
NoResponse == 0

Null == 0
HeaderId == 1
\* NaN is a number in JS: here an integer that no score or time takes. Every
\* comparison with NaN is false (Greater, StrictEq).
NaN == -999
NegInfinity == "-Infinity"
\* An absent array element or body field (undefined).
Missing == <<"undefined">>

UserIds == {<<"a">>, <<"b">>}
GameIds == {<<"g">>}
\* The games that can have a shard; the second one is used only where two
\* shards are run side by side (SpecShards).
AllGameIds == GameIds \cup {<<"h">>}
\* Scores a request carries; the handler checks presence only.
Scores == 0..MaxScore

\* --------------------------------------------------------------------- text

Digit == <<"0", "1", "2", "3", "4", "5", "6", "7", "8", "9">>

\* UTF-16 code unit of a character; JS compares strings by code unit.
CharCode(c) ==
  CASE c = " " -> 32
    [] c = "," -> 44
    [] c = "-" -> 45
    [] c = "D" -> 68
    [] c = "a" -> 97
    [] c = "b" -> 98
    [] c = "g" -> 103
    [] c = "h" -> 104
    [] OTHER -> 48 + (CHOOSE d \in 0..9 : Digit[d + 1] = c)

\* JS string a < b
RECURSIVE StrLess(_, _)
StrLess(x, y) ==
  IF y = <<>> THEN FALSE
  ELSE IF x = <<>> THEN TRUE
  ELSE IF Head(x) = Head(y) THEN StrLess(Tail(x), Tail(y))
  ELSE CharCode(Head(x)) < CharCode(Head(y))

RECURSIVE NatToString(_)
NatToString(n) ==
  IF n < 10 THEN <<Digit[n + 1]>>
  ELSE NatToString(n \div 10) \o <<Digit[(n % 10) + 1]>>

\* `${n}` for an integer n
NumberToString(n) == IF n < 0 THEN <<"-">> \o NatToString(-n) ELSE NatToString(n)

\* `${date}`: Date.prototype.toString() starts with the weekday name (a
\* letter, written "D" here) and carries the time to the second.
DateToString(t) == <<"D">> \o NatToString(t)

IsDigit(c) == \E d \in 1..10 : Digit[d] = c
DigitValue(c) == (CHOOSE d \in 1..10 : Digit[d] = c) - 1

RECURSIVE TrimStart(_)
TrimStart(s) == IF s # <<>> /\ Head(s) \in {" ", "\n"} THEN TrimStart(Tail(s)) ELSE s

RECURSIVE TrimEnd(_)
TrimEnd(s) ==
  IF s # <<>> /\ s[Len(s)] \in {" ", "\n"} THEN TrimEnd(SubSeq(s, 1, Len(s) - 1)) ELSE s

\* String.prototype.trim()
Trim(s) == TrimEnd(TrimStart(s))

\* String.prototype.split(sep) for a one-character separator
RECURSIVE SplitAcc(_, _, _)
SplitAcc(s, sep, cur) ==
  IF s = <<>> THEN <<cur>>
  ELSE IF Head(s) = sep THEN <<cur>> \o SplitAcc(Tail(s), sep, <<>>)
  ELSE SplitAcc(Tail(s), sep, Append(cur, Head(s)))

Split(s, sep) == SplitAcc(s, sep, <<>>)

RECURSIVE DigitsValue(_, _)
DigitsValue(s, acc) ==
  IF s # <<>> /\ IsDigit(Head(s)) THEN DigitsValue(Tail(s), acc * 10 + DigitValue(Head(s)))
  ELSE acc

\* parseInt(s): leading white space, an optional sign, then decimal digits
\* up to the first other character; NaN when there is no digit. An absent
\* field (undefined) gives NaN.
ParseInt(s) ==
  IF s = Missing THEN NaN
  ELSE LET t == TrimStart(s)
           neg == t # <<>> /\ Head(t) = "-"
           body == IF t # <<>> /\ Head(t) \in {"-", "+"} THEN Tail(t) ELSE t
           v == DigitsValue(body, 0)
       IN  IF body = <<>> \/ ~IsDigit(Head(body)) THEN NaN
           ELSE IF neg THEN -v ELSE v

\* ---------------------------------------------------------------- SkipList
\* A skip list is [nodes, level]: nodes is the heap of SkipListNode objects
\* in allocation order (a node's id is its index, the header is HeaderId and
\* Null is the null reference); level is SkipList.level.

SkipListNode(user_id, game_id, score, lvl) ==
  [user_id |-> user_id, game_id |-> game_id, score |-> score,
   forward |-> [i \in 0..lvl |-> Null]]

\* new SkipList()
NewSkipList ==
  [nodes |-> <<SkipListNode(<<>>, <<>>, NegInfinity, maxLevel)>>, level |-> 0]

\* x > y and x === y on JS numbers
Greater(x, y) == x # NaN /\ y # NaN /\ x > y
StrictEq(x, y) == x # NaN /\ y # NaN /\ x = y

\* Faulty variant: the search compares scores only and drops the user_id tie-break.
SearchAdvancesByScoreOnly(n, sd) == Greater(n.score, sd.score)

\* The loop condition of insertScore's search, for the node n ahead: n ranks
\* before the entry (higher score, or equal score and smaller user_id).
SearchAdvances(n, sd) ==
  \/ Greater(n.score, sd.score)
  \/ (StrictEq(n.score, sd.score) /\ StrLess(n.user_id, sd.user_id))

\* The while loop at level i, from node cur.
RECURSIVE Advance(_, _, _, _)
Advance(nodes, cur, i, sd) ==
  LET nx == nodes[cur].forward[i]
  IN  IF nx # Null /\ SearchAdvances(nodes[nx], sd)
      THEN Advance(nodes, nx, i, sd)
      ELSE cur

\* The for loop from level i down to 0: the update array and the last node.
RECURSIVE Search(_, _, _, _, _)
Search(nodes, cur, i, sd, update) ==
  IF i < 0 THEN [update |-> update, current |-> cur]
  ELSE LET c == Advance(nodes, cur, i, sd)
       IN  Search(nodes, c, i - 1, sd, [update EXCEPT ![i] = c])

\* The second half of insertScore: raise the level watermark, allocate the
\* node and connect it at each level 0..newLevel.
SpliceNewNode(sl, sd, newLevel) ==
  LET nodes == sl.nodes
      found == Search(nodes, HeaderId, sl.level, sd, [i \in 0..maxLevel |-> Null])
      update == [i \in 0..maxLevel |->
                   IF i > sl.level /\ i <= newLevel THEN HeaderId ELSE found.update[i]]
      newId == Len(nodes) + 1
      newNode == [SkipListNode(sd.user_id, sd.game_id, sd.score, newLevel)
                    EXCEPT !.forward = [i \in 0..newLevel |-> nodes[update[i]].forward[i]]]
  IN  [nodes |-> [n \in 1..newId |->
                    IF n = newId THEN newNode
                    ELSE [nodes[n] EXCEPT !.forward =
                            [i \in DOMAIN @ |->
                               IF i <= newLevel /\ update[i] = n THEN newId ELSE @[i]]]],
       level |-> IF newLevel > sl.level THEN newLevel ELSE sl.level]

\* insertScore(scoreDetails), with newLevel the value randomLevel() returns
\* when it is called.
InsertScore(sl, sd, newLevel) ==
  LET nodes == sl.nodes
      found == Search(nodes, HeaderId, sl.level, sd, [i \in 0..maxLevel |-> Null])
      next == nodes[found.current].forward[0]
  IN  IF next # Null /\ nodes[next].user_id = sd.user_id
      THEN [sl EXCEPT !.nodes[next].score = sd.score]
      ELSE SpliceNewNode(sl, sd, newLevel)

\* TRUE when insertScore reaches randomLevel(), i.e. allocates a node.
InsertAllocates(sl, sd) ==
  LET found == Search(sl.nodes, HeaderId, sl.level, sd, [i \in 0..maxLevel |-> Null])
      next == sl.nodes[found.current].forward[0]
  IN  ~(next # Null /\ sl.nodes[next].user_id = sd.user_id)

\* The level-0 walk shared by getTopK, getRank and getScore: the ids of the
\* nodes from cur on.
RECURSIVE Walk(_, _)
Walk(nodes, cur) ==
  IF cur = Null THEN <<>> ELSE <<cur>> \o Walk(nodes, nodes[cur].forward[0])

Level0(sl) == Walk(sl.nodes, sl.nodes[HeaderId].forward[0])

\* getTopK(k)
GetTopK(sl, k) ==
  LET chain == Level0(sl)
      n == IF k <= 0 THEN 0 ELSE IF k < Len(chain) THEN k ELSE Len(chain)
  IN  [r \in 1..n |->
         [user_id |-> sl.nodes[chain[r]].user_id, score |-> sl.nodes[chain[r]].score,
          rank |-> r, game_id |-> sl.nodes[chain[r]].game_id]]

\* getRank(userId)
GetRank(sl, userId) ==
  LET chain == Level0(sl)
      hits == {r \in 1..Len(chain) : sl.nodes[chain[r]].user_id = userId}
  IN  IF hits = {} THEN -1 ELSE CHOOSE r \in hits : \A q \in hits : r <= q

\* getScore(userId)
GetScore(sl, userId) ==
  LET chain == Level0(sl)
      hits == {r \in 1..Len(chain) : sl.nodes[chain[r]].user_id = userId}
  IN  IF hits = {} THEN -1
      ELSE sl.nodes[chain[CHOOSE r \in hits : \A q \in hits : r <= q]].score

\* ------------------------------------------------------------ WriteAheadLog

\* The line append() writes for an entry.
LogLine(entry) ==
  entry.user_id \o <<",", " ">> \o entry.game_id \o <<",", " ">>
    \o NumberToString(entry.score) \o <<",", " ">> \o DateToString(entry.ctime)
    \o <<"\n">>

\* The entry recover() pushes for one non-blank line: the first four
\* comma-separated fields, a missing one being undefined.
ParseLine(line) ==
  LET f == Split(line, ",")
      field(i) == IF i <= Len(f) THEN f[i] ELSE Missing
  IN  [user_id |-> field(1), game_id |-> field(2), score |-> ParseInt(field(3)),
       ctime |-> ParseInt(field(4))]

RECURSIVE ParseLines(_)
ParseLines(lines) ==
  IF lines = <<>> THEN <<>>
  ELSE (IF Trim(Head(lines)) # <<>> THEN <<ParseLine(Head(lines))>> ELSE <<>>)
         \o ParseLines(Tail(lines))

\* WriteAheadLog.recover(): the entries of the file, [] when it cannot be read.
WalRecover(file) ==
  IF ~file.exists THEN <<>> ELSE ParseLines(Split(Trim(file.content), "\n"))

\* new WriteAheadLog(gameId): an empty (resolved) writeQueue, and
\* ensureDirectory() started and not awaited.
\*   queue    : the requests whose append callbacks are chained on writeQueue,
\*              oldest first; the head's appendFile is the one in progress
\*   written  : the head's appendFile has written its line to the file
\*   rejected : writeQueue is a rejected promise
NewWal == [queue |-> <<>>, written |-> FALSE, rejected |-> FALSE, mkdirPending |-> TRUE]

NoWal == [queue |-> <<>>, written |-> FALSE, rejected |-> FALSE, mkdirPending |-> FALSE]

NoFile == [exists |-> FALSE, content |-> <<>>]

\* --------------------------------------------------------------- the state

VARIABLES
  dataDir,     \* the directory ${CWD}/data exists
  walFile,     \* per game: the file data/<game>.wal
  Instances,   \* the keys of LeaderboardEngine.Instances
  skipList,    \* per game: the engine's skipList
  wal,         \* per game: the engine's wal
  requests,    \* the POST /score requests received so far, in arrival order
  crashes,     \* number of process kills so far
  faults,      \* number of injected appendFile faults so far
  beforeKill,  \* what topK(all) returned immediately before the last kill
  reply,       \* what the last read of a shard returned
  instances,   \* dummy.ts: LeaderboardEngine.instances, game -> engine object or Null
  engines,     \* dummy.ts: the LeaderboardEngine objects constructed, by object id
  got,         \* dummy.ts: per game, the objects getInstance has returned
  calls,       \* dummy.ts: the updateScore calls made so far
  checkpointFile,  \* dummy.ts: per game, the file data/<game>.checkpoint
  checkpoints  \* dummy.ts: number of times the checkpoint timer has fired

\* The state of the engine of src/utils/dummy.ts.
checkpointVars == <<checkpointFile, checkpoints>>
dummyVars == <<instances, engines, got, calls, checkpointVars>>

vars == <<dataDir, walFile, Instances, skipList, wal, requests, crashes, faults, beforeKill, reply,
          dummyVars>>

\* Request bodies: JSON objects with some of the fields user_id, game_id, score.
ValidBodies == [user_id : UserIds, game_id : GameIds, score : Scores]
InvalidBodies == {[user_id |-> u] : u \in {<<"a">>}}
Bodies == ValidBodies \cup InvalidBodies

isNullOrUndefined(body, f) == f \notin DOMAIN body

\* No read has been made.
NoReply == [op |-> "none", k |-> 0, user |-> <<>>, thrown |-> FALSE, rows |-> <<>>, value |-> 0]

Init ==
  /\ dataDir \in BOOLEAN
  /\ walFile = [g \in AllGameIds |-> NoFile]
  /\ Instances = {}
  /\ skipList = [g \in AllGameIds |-> NewSkipList]
  /\ wal = [g \in AllGameIds |-> NoWal]
  /\ requests = <<>>
  /\ crashes = 0
  /\ faults = 0
  /\ beforeKill = [quiet |-> TRUE, rows |-> [g \in AllGameIds |-> <<>>]]
  /\ reply = NoReply
  /\ instances = [g \in AllGameIds |-> Null]
  /\ engines = <<>>
  /\ got = [g \in AllGameIds |-> {}]
  /\ calls = <<>>
  /\ checkpointFile = [g \in AllGameIds |-> NoFile]
  /\ checkpoints = 0

\* The IScoreDetails a request's handler builds.
ScoreDetails(r) ==
  [user_id |-> r.body.user_id, game_id |-> r.body.game_id, score |-> r.body.score,
   ctime |-> r.ctime]

\* LeaderboardEngine.getInstance(gameId) seen as a change of the registry,
\* the index and the WAL object: the constructor runs on the first get.
Constructed(g) ==
  /\ Instances' = Instances \cup {g}
  /\ skipList' = IF g \in Instances THEN skipList ELSE [skipList EXCEPT ![g] = NewSkipList]

WalAfterGet(g) == IF g \in Instances THEN wal[g] ELSE NewWal

\* getInstance(gameId) from any caller other than the score handler.
GetInstance(g) ==
  /\ g \notin Instances
  /\ Constructed(g)
  /\ wal' = [wal EXCEPT ![g] = WalAfterGet(g)]
  /\ UNCHANGED <<dataDir, walFile, requests, crashes, faults, beforeKill, reply, dummyVars>>

\* scoreIngestionPostHandler up to its await: the field check, getInstance,
\* updateScore -> wal.append chaining its callback on writeQueue. On a
\* rejected writeQueue the chained promise rejects without a file write and
\* the handler answers 503.
PostScore(body) ==
  /\ Len(requests) < MaxRequests
  /\ LET now == Len(requests) + 1
         id == Len(requests) + 1
     IN  IF \/ isNullOrUndefined(body, "user_id")
            \/ isNullOrUndefined(body, "game_id")
            \/ isNullOrUndefined(body, "score")
         THEN /\ requests' = Append(requests,
                   [body |-> body, ctime |-> now, proc |-> crashes,
                    pc |-> "thrown", status |-> NoResponse])
              /\ UNCHANGED <<Instances, skipList, wal>>
         ELSE LET g == body.game_id
                  w == WalAfterGet(g)
              IN  /\ Constructed(g)
                  /\ IF w.rejected
                     THEN /\ wal' = [wal EXCEPT ![g] = w]
                          /\ requests' = Append(requests,
                               [body |-> body, ctime |-> now, proc |-> crashes,
                                pc |-> "done", status |-> Unavailable])
                     ELSE /\ wal' = [wal EXCEPT ![g] = [w EXCEPT !.queue = Append(@, id)]]
                          /\ requests' = Append(requests,
                               [body |-> body, ctime |-> now, proc |-> crashes,
                                pc |-> "appending", status |-> NoResponse])
  /\ UNCHANGED <<dataDir, walFile, crashes, faults, beforeKill, reply, dummyVars>>

\* ensureDirectory(): fs.mkdir(dataDir, {recursive: true}) completes.
MkdirDone(g) ==
  /\ g \in Instances
  /\ wal[g].mkdirPending
  /\ dataDir' = TRUE
  /\ wal' = [wal EXCEPT ![g].mkdirPending = FALSE]
  /\ UNCHANGED <<walFile, Instances, skipList, requests, crashes, faults, beforeKill, reply, dummyVars>>

\* Faulty variant: the line is not written.
AppendedNothing(content, line) == content

\* The file's content after fs.appendFile(walPath, line).
AppendedContent(content, line) == content \o line

\* Faulty variant: append() calls appendFile without chaining it on
\* writeQueue, so the write of the latest call can be the one that lands.
LatestWriter(w) == w.queue[Len(w.queue)]

\* writeQueue = writeQueue.then(callback): the callback that runs is the
\* oldest one chained and not yet settled.
NextWriter(w) == Head(w.queue)

\* fs.appendFile of the head callback writes its line (creating the file).
AppendFileWrite(g) ==
  /\ g \in Instances
  /\ wal[g].queue # <<>>
  /\ ~wal[g].written
  /\ dataDir
  /\ walFile' = [walFile EXCEPT ![g] =
       [exists |-> TRUE,
        content |-> AppendedContent(@.content,
                      LogLine(ScoreDetails(requests[NextWriter(wal[g])])))]]
  /\ wal' = [wal EXCEPT ![g].written = TRUE]
  /\ UNCHANGED <<dataDir, Instances, skipList, requests, crashes, faults, beforeKill, reply, dummyVars>>

\* Faulty variant: one writeQueue shared by all shards, so a failed append
\* rejects the waiting updateScore calls of every game.
RejectWaiting(g) ==
  requests' = [i \in 1..Len(requests) |->
     IF requests[i].pc = "appending"
     THEN [requests[i] EXCEPT !.pc = "done", !.status = Unavailable]
     ELSE requests[i]]

\* What the handlers of the queued requests do when writeQueue rejects.
RejectQueued(g) ==
  requests' = [i \in 1..Len(requests) |->
     IF \E k \in 1..Len(wal[g].queue) : wal[g].queue[k] = i
     THEN [requests[i] EXCEPT !.pc = "done", !.status = Unavailable]
     ELSE requests[i]]

\* Faulty variant: updateScore updates the index although its append failed.
FailureAppliesHead(g) ==
  skipList' = [skipList EXCEPT ![g] =
                 InsertScore(@, ScoreDetails(requests[Head(wal[g].queue)]), 0)]

\* updateScore when its await throws: insertScore is not reached.
FailureLeavesIndex(g) == UNCHANGED skipList

\* fs.appendFile of the head callback fails (no data directory, or an I/O
\* fault): writeQueue rejects, the callbacks chained behind it are skipped,
\* every waiting updateScore throws and its handler answers 503.
AppendFileFails(g) ==
  /\ g \in Instances
  /\ wal[g].queue # <<>>
  /\ ~wal[g].written
  /\ \/ ~dataDir /\ faults' = faults
     \/ dataDir /\ faults < MaxFaults /\ faults' = faults + 1
  /\ RejectQueued(g)
  /\ FailureLeavesIndex(g)
  /\ wal' = [wal EXCEPT ![g].queue = <<>>, ![g].rejected = TRUE]
  /\ UNCHANGED <<dataDir, walFile, Instances, crashes, beforeKill, reply, dummyVars>>

\* updateScore after its await, and the handler after its own: the index
\* is updated and 202 is sent.
ApplyAndAck(g, id, newLevel) ==
  /\ skipList' = [skipList EXCEPT ![g] = InsertScore(@, ScoreDetails(requests[id]), newLevel)]
  /\ requests' = [requests EXCEPT ![id].pc = "done", ![id].status = Accepted]

\* randomLevel(): any level up to maxLevel (here up to LevelCap).
RandomLevels == 0..(IF LevelCap < maxLevel THEN LevelCap ELSE maxLevel)

\* Faulty variant: updateScore does not wait for the append.
AppendNotAwaited(w) == TRUE

\* `await this.wal.append(scoreDetails)`: updateScore goes on when the
\* appendFile of its callback has resolved.
AwaitAppend(w) == w.written

\* The head's appendFile resolves.
AppendFileDone(g) ==
  /\ g \in Instances
  /\ wal[g].queue # <<>>
  /\ AwaitAppend(wal[g])
  /\ LET id == Head(wal[g].queue)
     IN  \E newLevel \in RandomLevels :
           /\ newLevel = 0 \/ InsertAllocates(skipList[g], ScoreDetails(requests[id]))
           /\ ApplyAndAck(g, id, newLevel)
  /\ wal' = [wal EXCEPT ![g].queue = Tail(@), ![g].written = FALSE]
  /\ UNCHANGED <<dataDir, walFile, Instances, crashes, faults, beforeKill, reply, dummyVars>>

\* The process is killed and started again: memory is lost, files stay. A
\* mkdir in progress may or may not have happened.
Restarted ==
  /\ crashes < MaxCrashes
  /\ crashes' = crashes + 1
  /\ beforeKill' = [quiet |-> \A i \in 1..Len(requests) : requests[i].pc # "appending",
                    rows |-> [g \in AllGameIds |-> GetTopK(skipList[g], Len(skipList[g].nodes))]]
  /\ Instances' = {}
  /\ skipList' = [g \in AllGameIds |-> NewSkipList]
  /\ wal' = [g \in AllGameIds |-> NoWal]
  /\ requests' = [i \in 1..Len(requests) |->
       IF requests[i].pc = "appending" THEN [requests[i] EXCEPT !.pc = "killed"]
       ELSE requests[i]]
  /\ dataDir' \in (IF \E g \in Instances : wal[g].mkdirPending THEN {dataDir, TRUE} ELSE {dataDir})

\* A kill between two file writes: the files are as they were.
Crash ==
  /\ Restarted
  /\ UNCHANGED <<walFile, faults, reply, dummyVars>>

\* One lifetime of the server process.
Next ==
  \/ \E body \in Bodies : PostScore(body)
  \/ \E g \in GameIds : GetInstance(g)
  \/ \E g \in GameIds : MkdirDone(g)
  \/ \E g \in GameIds : AppendFileWrite(g)
  \/ \E g \in GameIds : AppendFileFails(g)
  \/ \E g \in GameIds : AppendFileDone(g)

Spec == Init /\ [][Next]_vars

\* The server process with kills and restarts.
NextRestart ==
  \/ Next
  \/ Crash

SpecRestart == Init /\ [][NextRestart]_vars

\* -------------------------------------------------------------------- reads
\* The read methods of LeaderboardEngine, called on the handle getInstance
\* returned. None of them has a throw statement.

\* Arguments a caller passes as k.
TopKArgs == (-1)..MaxRequests

\* Faulty variant: getTopK detaches the level-0 chain it has walked.
ReadTopKDetaches(g, k) ==
  /\ g \in Instances
  /\ reply' = [op |-> "topK", k |-> k, user |-> <<>>, thrown |-> FALSE,
               rows |-> GetTopK(skipList[g], k), value |-> 0]
  /\ skipList' = [skipList EXCEPT ![g].nodes[HeaderId].forward[0] = Null]
  /\ UNCHANGED <<dataDir, walFile, Instances, wal, requests, crashes, faults,
                 beforeKill, dummyVars>>

\* engine.getTopK(k)
ReadTopK(g, k) ==
  /\ g \in Instances
  /\ reply' = [op |-> "topK", k |-> k, user |-> <<>>, thrown |-> FALSE,
               rows |-> GetTopK(skipList[g], k), value |-> 0]
  /\ UNCHANGED <<dataDir, walFile, Instances, skipList, wal, requests, crashes, faults,
                 beforeKill, dummyVars>>

\* engine.getUserRank(userId)
ReadUserRank(g, u) ==
  /\ g \in Instances
  /\ reply' = [op |-> "rank", k |-> 0, user |-> u, thrown |-> FALSE,
               rows |-> <<>>, value |-> GetRank(skipList[g], u)]
  /\ UNCHANGED <<dataDir, walFile, Instances, skipList, wal, requests, crashes, faults,
                 beforeKill, dummyVars>>

\* engine.getUserScore(userId)
ReadUserScore(g, u) ==
  /\ g \in Instances
  /\ reply' = [op |-> "score", k |-> 0, user |-> u, thrown |-> FALSE,
               rows |-> <<>>, value |-> GetScore(skipList[g], u)]
  /\ UNCHANGED <<dataDir, walFile, Instances, skipList, wal, requests, crashes, faults,
                 beforeKill, dummyVars>>

\* The server process with readers.
NextReads ==
  \/ Next
  \/ \E g \in GameIds : \E k \in TopKArgs : ReadTopK(g, k)
  \/ \E g \in GameIds : \E u \in UserIds : ReadUserRank(g, u)
  \/ \E g \in GameIds : \E u \in UserIds : ReadUserScore(g, u)

SpecReads == Init /\ [][NextReads]_vars

\* ------------------------------------------------------------ process exit

\* The handler's promise of the request that just failed the field check is
\* rejected and nothing handles it: the runtime raises the rejection as an
\* uncaught exception at the end of the tick, the listener of app.ts logs it
\* and calls process.exit(1), and the process is started again.
UnhandledRejection ==
  /\ requests # <<>>
  /\ requests[Len(requests)].pc = "thrown"
  /\ requests[Len(requests)].proc = crashes
  /\ Crash

\* The server process that may exit on an unhandled rejection.
NextExit ==
  \/ Next
  \/ UnhandledRejection

SpecExit == Init /\ [][NextExit]_vars

\* -------------------------------------------------------------- any input
\* The handler checks only that the three fields are present, so a body may
\* carry an empty user_id, a user_id with a comma in it, or a negative score.

AnyUserIds == UserIds \cup {<<>>, <<"a", ",", "b">>}
AnyScores == (-1)..MaxScore
AnyBodies == [user_id : AnyUserIds, game_id : GameIds, score : AnyScores]

\* The server process with clients that send any body.
NextAnyInput ==
  \/ Next
  \/ \E body \in AnyBodies \ Bodies : PostScore(body)

SpecAnyInput == Init /\ [][NextAnyInput]_vars

\* -------------------------------------------------------------- torn write

\* A kill (or power loss) while the head's appendFile is writing: the first n
\* characters of its line are in the file, the rest is not.
KillDuringAppend(g, n) ==
  /\ g \in Instances
  /\ wal[g].queue # <<>>
  /\ ~wal[g].written
  /\ dataDir
  /\ LET line == LogLine(ScoreDetails(requests[Head(wal[g].queue)]))
     IN  /\ n \in 1..(Len(line) - 1)
         /\ walFile' = [walFile EXCEPT ![g] =
              [exists |-> TRUE, content |-> @.content \o SubSeq(line, 1, n)]]
  /\ Restarted
  /\ UNCHANGED <<faults, reply, dummyVars>>

\* Length of the longest WAL line.
MaxLineLen ==
  Len(LogLine([user_id |-> <<"a">>, game_id |-> <<"g">>, score |-> MaxScore,
               ctime |-> MaxRequests]))

\* The server process with kills that truncate a write.
NextTorn ==
  \/ Next
  \/ \E g \in GameIds : \E n \in 1..MaxLineLen : KillDuringAppend(g, n)

SpecTorn == Init /\ [][NextTorn]_vars

\* --------------------------------------------------------------- two shards
\* Two games served by one process: each has its own LeaderboardEngine, with
\* its own SkipList and WriteAheadLog, and its own file data/<game>.wal.

ShardBodies == [user_id : UserIds, game_id : AllGameIds, score : Scores]

NextShards ==
  \/ \E body \in ShardBodies : PostScore(body)
  \/ \E g \in AllGameIds : GetInstance(g)
  \/ \E g \in AllGameIds : MkdirDone(g)
  \/ \E g \in AllGameIds : AppendFileWrite(g)
  \/ \E g \in AllGameIds : AppendFileFails(g)
  \/ \E g \in AllGameIds : AppendFileDone(g)

SpecShards == Init /\ [][NextShards]_vars

\* ------------------------------------------------------ the engine of dummy.ts
\* src/utils/dummy.ts holds a second LeaderboardEngine: the same skip list
\* (insert is insertScore without the game_id), a userScores map beside it, a
\* WAL of lines "userId,score,timestamp", a checkpoint timer, a replay started
\* by the constructor and not awaited, and destroy(). It writes the same
\* files data/<game>.wal. Its callers hold the objects getInstance returned.

\* Number of LeaderboardEngine objects constructed in one behaviour.
MaxEngines == 2
\* Number of updateScore calls on these objects in one process lifetime.
MaxCalls == 1
\* Number of times the checkpoint timer fires in one behaviour.
MaxCheckpoints == 1

\* SkipList.maxLevel of dummy.ts
dummyMaxLevel == 16

\* new SkipList() of dummy.ts
DummyNewSkipList ==
  [nodes |-> <<SkipListNode(<<>>, <<>>, NegInfinity, dummyMaxLevel)>>, level |-> 0]

\* skipList.insert(userId, score)
DummyInsert(sl, userId, score, newLevel) ==
  InsertScore(sl, [user_id |-> userId, game_id |-> <<>>, score |-> score], newLevel)

DummyInsertAllocates(sl, userId, score) ==
  InsertAllocates(sl, [user_id |-> userId, game_id |-> <<>>, score |-> score])

\* userScores.set(userId, score)
MapSet(map, userId, score) ==
  [u \in DOMAIN map \cup {userId} |-> IF u = userId THEN score ELSE map[u]]

\* The line append() writes for an entry.
DummyLogLine(entry) ==
  entry.userId \o <<",">> \o NumberToString(entry.score) \o <<",">>
    \o NatToString(entry.timestamp) \o <<"\n">>

\* The entry recover() pushes for one non-blank line.
DummyParseLine(line) ==
  LET f == Split(line, ",")
      field(i) == IF i <= Len(f) THEN f[i] ELSE Missing
  IN  [userId |-> field(1), score |-> ParseInt(field(2)), timestamp |-> ParseInt(field(3))]

RECURSIVE DummyParseLines(_)
DummyParseLines(lines) ==
  IF lines = <<>> THEN <<>>
  ELSE (IF Trim(Head(lines)) # <<>> THEN <<DummyParseLine(Head(lines))>> ELSE <<>>)
         \o DummyParseLines(Tail(lines))

\* WriteAheadLog.recover()
DummyWalRecover(file) ==
  IF ~file.exists THEN <<>> ELSE DummyParseLines(Split(Trim(file.content), "\n"))

\* new LeaderboardEngine(gameId): the constructor leaves the timer running and
\* recover() waiting for its readFile.
NewEngine(g) ==
  [gameId |-> g, skipList |-> DummyNewSkipList, userScores |-> <<>>, wal |-> NewWal,
   checkpointInterval |-> TRUE, checkpoint |-> "idle",
   recovery |-> [pc |-> "reading", entries |-> <<>>]]

\* LeaderboardEngine.getInstance(gameId)
DummyGetInstance(g) ==
  /\ IF instances[g] = Null
     THEN /\ Len(engines) < MaxEngines
          /\ engines' = Append(engines, NewEngine(g))
          /\ instances' = [instances EXCEPT ![g] = Len(engines) + 1]
          /\ got' = [got EXCEPT ![g] = @ \cup {Len(engines) + 1}]
     ELSE /\ got' = [got EXCEPT ![g] = @ \cup {instances[g]}]
          /\ UNCHANGED <<engines, instances>>
  /\ UNCHANGED <<checkpointVars, dataDir, walFile, Instances, skipList, wal, requests, crashes, faults,
                 beforeKill, reply, calls>>

\* engine.destroy(), on any object a caller holds
DummyDestroy(e) ==
  /\ e \in 1..Len(engines)
  /\ engines' = [engines EXCEPT ![e].checkpointInterval = FALSE]
  /\ instances' = [instances EXCEPT ![engines[e].gameId] = Null]
  /\ UNCHANGED <<checkpointVars, dataDir, walFile, Instances, skipList, wal, requests, crashes, faults,
                 beforeKill, reply, got, calls>>

\* ensureDataDirectory(): fs.mkdir completes.
DummyMkdirDone(e) ==
  /\ e \in 1..Len(engines)
  /\ engines[e].wal.mkdirPending
  /\ dataDir' = TRUE
  /\ engines' = [engines EXCEPT ![e].wal.mkdirPending = FALSE]
  /\ UNCHANGED <<checkpointVars, walFile, Instances, skipList, wal, requests, crashes, faults,
                 beforeKill, reply, instances, got, calls>>

\* recover(): the readFile of wal.recover() reads the file.
DummyRecoverRead(e) ==
  /\ e \in 1..Len(engines)
  /\ engines[e].recovery.pc = "reading"
  /\ engines' = [engines EXCEPT ![e].recovery =
       [pc |-> "read", entries |-> DummyWalRecover(walFile[engines[e].gameId])]]
  /\ UNCHANGED <<checkpointVars, dataDir, walFile, Instances, skipList, wal, requests, crashes, faults,
                 beforeKill, reply, instances, got, calls>>

\* The replay loop over entries[from..], levels[i] being what randomLevel()
\* returns if the insert of entry i calls it.
RECURSIVE Replay(_, _, _, _)
Replay(eng, entries, levels, from) ==
  IF from > Len(entries) THEN eng
  ELSE Replay([eng EXCEPT
                 !.userScores = MapSet(@, entries[from].userId, entries[from].score),
                 !.skipList = DummyInsert(@, entries[from].userId, entries[from].score,
                                          levels[from])],
              entries, levels, from + 1)

\* recover() after its await: every entry read is replayed.
DummyRecoverReplay(e) ==
  /\ e \in 1..Len(engines)
  /\ engines[e].recovery.pc = "read"
  /\ \E levels \in [1..Len(engines[e].recovery.entries) -> RandomLevels] :
       engines' = [engines EXCEPT ![e] =
         [Replay(engines[e], engines[e].recovery.entries, levels, 1)
            EXCEPT !.recovery = [pc |-> "done", entries |-> <<>>]]]
  /\ UNCHANGED <<checkpointVars, dataDir, walFile, Instances, skipList, wal, requests, crashes, faults,
                 beforeKill, reply, instances, got, calls>>

\* engine.updateScore(userId, score, scoreDetails) up to its await: wal.append
\* chains its callback on writeQueue; on a rejected writeQueue the call
\* rejects without a file write.
DummyUpdateScore(e, userId, score) ==
  /\ e \in 1..Len(engines)
  /\ Cardinality({i \in 1..Len(calls) : calls[i].proc = crashes}) < MaxCalls
  /\ LET id == Len(calls) + 1
         call == [engine |-> e, gameId |-> engines[e].gameId, userId |-> userId,
                  score |-> score, timestamp |-> id, proc |-> crashes]
     IN  IF engines[e].wal.rejected
         THEN /\ calls' = Append(calls, call @@ [pc |-> "rejected"])
              /\ UNCHANGED engines
         ELSE /\ calls' = Append(calls, call @@ [pc |-> "appending"])
              /\ engines' = [engines EXCEPT ![e].wal.queue = Append(@, id)]
  /\ UNCHANGED <<checkpointVars, dataDir, walFile, Instances, skipList, wal, requests, crashes, faults,
                 beforeKill, reply, instances, got>>

\* fs.appendFile of the head callback writes its line (creating the file).
DummyAppendFileWrite(e) ==
  /\ e \in 1..Len(engines)
  /\ engines[e].wal.queue # <<>>
  /\ ~engines[e].wal.written
  /\ dataDir
  /\ walFile' = [walFile EXCEPT ![engines[e].gameId] =
       [exists |-> TRUE,
        content |-> AppendedContent(@.content,
                      DummyLogLine(calls[NextWriter(engines[e].wal)]))]]
  /\ engines' = [engines EXCEPT ![e].wal.written = TRUE]
  /\ UNCHANGED <<checkpointVars, dataDir, Instances, skipList, wal, requests, crashes, faults,
                 beforeKill, reply, instances, got, calls>>

\* fs.appendFile of the head callback fails: writeQueue rejects and every
\* updateScore waiting on it rejects, its index untouched.
DummyAppendFileFails(e) ==
  /\ e \in 1..Len(engines)
  /\ engines[e].wal.queue # <<>>
  /\ ~engines[e].wal.written
  /\ \/ ~dataDir /\ faults' = faults
     \/ dataDir /\ faults < MaxFaults /\ faults' = faults + 1
  /\ calls' = [i \in 1..Len(calls) |->
       IF \E k \in 1..Len(engines[e].wal.queue) : engines[e].wal.queue[k] = i
       THEN [calls[i] EXCEPT !.pc = "rejected"]
       ELSE calls[i]]
  /\ engines' = [engines EXCEPT ![e].wal.queue = <<>>, ![e].wal.rejected = TRUE]
  /\ UNCHANGED <<checkpointVars, dataDir, walFile, Instances, skipList, wal, requests, crashes,
                 beforeKill, reply, instances, got>>

\* The head's appendFile resolves: updateScore goes on after its await, sets
\* userScores, inserts into the skip list and resolves.
DummyAppendFileDone(e) ==
  /\ e \in 1..Len(engines)
  /\ engines[e].wal.queue # <<>>
  /\ AwaitAppend(engines[e].wal)
  /\ LET id == Head(engines[e].wal.queue)
         c == calls[id]
     IN  /\ \E newLevel \in RandomLevels :
              /\ newLevel = 0 \/ DummyInsertAllocates(engines[e].skipList, c.userId, c.score)
              /\ engines' = [engines EXCEPT
                   ![e].userScores = MapSet(@, c.userId, c.score),
                   ![e].skipList = DummyInsert(@, c.userId, c.score, newLevel),
                   ![e].wal.queue = Tail(@),
                   ![e].wal.written = FALSE]
         /\ calls' = [calls EXCEPT ![id].pc = "resolved"]
  /\ UNCHANGED <<checkpointVars, dataDir, walFile, Instances, skipList, wal, requests, crashes, faults,
                 beforeKill, reply, instances, got>>

\* engine.getUserScore(userId)
DummyGetUserScore(eng, userId) ==
  IF userId \in DOMAIN eng.userScores THEN eng.userScores[userId] ELSE -1

\* engine.getTopK(k): the skip list's rows with game_id set to the engine's.
DummyGetTopK(eng, k) ==
  LET entries == GetTopK(eng.skipList, k)
  IN  [r \in 1..Len(entries) |-> [entries[r] EXCEPT !.game_id = eng.gameId]]

\* The checkpoint timer fires and checkpoint() runs up to its second await:
\* fs.copyFile(walPath, checkpointPath). Without a WAL file the copy throws
\* and checkpoint() logs and returns.
DummyCheckpointCopy(e) ==
  /\ e \in 1..Len(engines)
  /\ engines[e].checkpointInterval
  /\ engines[e].checkpoint = "idle"
  /\ checkpoints < MaxCheckpoints
  /\ checkpoints' = checkpoints + 1
  /\ IF walFile[engines[e].gameId].exists
     THEN /\ checkpointFile' = [checkpointFile EXCEPT ![engines[e].gameId] =
                                  walFile[engines[e].gameId]]
          /\ engines' = [engines EXCEPT ![e].checkpoint = "copied"]
     ELSE UNCHANGED <<checkpointFile, engines>>
  /\ UNCHANGED <<dataDir, walFile, Instances, skipList, wal, requests, crashes, faults,
                 beforeKill, reply, instances, got, calls>>

\* fs.writeFile(walPath, ""): the content of the WAL file afterwards.
ClearedContent(content) == <<>>

\* checkpoint() after the copy: fs.writeFile(walPath, "") clears the WAL.
DummyCheckpointTruncate(e) ==
  /\ e \in 1..Len(engines)
  /\ engines[e].checkpoint = "copied"
  /\ walFile' = [walFile EXCEPT ![engines[e].gameId] =
                   [exists |-> TRUE, content |-> ClearedContent(@.content)]]
  /\ engines' = [engines EXCEPT ![e].checkpoint = "idle"]
  /\ UNCHANGED <<dataDir, Instances, skipList, wal, requests, crashes, faults,
                 beforeKill, reply, instances, got, calls, checkpointVars>>

\* The process is killed and started again: the engine objects, the registry
\* and the handles are lost, the calls in progress never return, the files
\* stay as they are.
DummyRestart ==
  /\ crashes < MaxCrashes
  /\ crashes' = crashes + 1
  /\ engines' = <<>>
  /\ instances' = [g \in AllGameIds |-> Null]
  /\ got' = [g \in AllGameIds |-> {}]
  /\ calls' = [i \in 1..Len(calls) |->
       IF calls[i].pc = "appending" THEN [calls[i] EXCEPT !.pc = "killed"] ELSE calls[i]]
  /\ dataDir' \in (IF \E e \in 1..Len(engines) : engines[e].wal.mkdirPending
                   THEN {dataDir, TRUE} ELSE {dataDir})
  /\ UNCHANGED <<walFile, Instances, skipList, wal, requests, faults, beforeKill, reply,
                 checkpointVars>>

\* A process that uses the engine of dummy.ts.
NextDummy ==
  \/ \E g \in GameIds : DummyGetInstance(g)
  \/ \E e \in 1..MaxEngines : DummyDestroy(e)
  \/ \E e \in 1..MaxEngines : DummyMkdirDone(e)
  \/ \E e \in 1..MaxEngines : DummyRecoverRead(e)
  \/ \E e \in 1..MaxEngines : DummyRecoverReplay(e)
  \/ \E e \in 1..MaxEngines : \E u \in UserIds : \E s \in Scores : DummyUpdateScore(e, u, s)
  \/ \E e \in 1..MaxEngines : DummyAppendFileWrite(e)
  \/ \E e \in 1..MaxEngines : DummyAppendFileFails(e)
  \/ \E e \in 1..MaxEngines : DummyAppendFileDone(e)

SpecDummy == Init /\ [][NextDummy]_vars

\* The same process with its checkpoint timer, killed and started again; no
\* caller destroys an engine.
NextCheckpoint ==
  \/ \E g \in GameIds : DummyGetInstance(g)
  \/ \E e \in 1..MaxEngines : DummyMkdirDone(e)
  \/ \E e \in 1..MaxEngines : DummyRecoverRead(e)
  \/ \E e \in 1..MaxEngines : DummyRecoverReplay(e)
  \/ \E e \in 1..MaxEngines : \E u \in UserIds : \E s \in Scores : DummyUpdateScore(e, u, s)
  \/ \E e \in 1..MaxEngines : DummyAppendFileWrite(e)
  \/ \E e \in 1..MaxEngines : DummyAppendFileFails(e)
  \/ \E e \in 1..MaxEngines : DummyAppendFileDone(e)
  \/ \E e \in 1..MaxEngines : DummyCheckpointCopy(e)
  \/ \E e \in 1..MaxEngines : DummyCheckpointTruncate(e)
  \/ DummyRestart

SpecCheckpoint == Init /\ [][NextCheckpoint]_vars

\* ------------------------------------------------------------------ claims

\* The requests of the running process that updateScore completed for user u
\* of game g, by arrival (= writeQueue = completion) order.
AcceptedWrites(g, u) ==
  {i \in 1..Len(requests) :
     /\ requests[i].status = Accepted
     /\ requests[i].proc = crashes
     /\ requests[i].body.game_id = g
     /\ requests[i].body.user_id = u}

LastWrite(g, u) == CHOOSE i \in AcceptedWrites(g, u) : \A j \in AcceptedWrites(g, u) : j <= i

\* No updateScore call is in progress.
Quiet == \A i \in 1..Len(requests) : requests[i].pc # "appending"

\* Number of level-0 nodes of game g that carry user u.
NodesOf(g, u) ==
  Cardinality({r \in 1..Len(Level0(skipList[g])) :
                 skipList[g].nodes[Level0(skipList[g])[r]].user_id = u})

\* C1: once all updateScore calls on a shard have completed, getUserScore(U)
\* is the score of U's last successful write, for every user written.
C1_ScoreOfIsLastWrite ==
  Quiet =>
    \A g \in Instances : \A u \in UserIds :
      AcceptedWrites(g, u) # {} =>
        GetScore(skipList[g], u) = requests[LastWrite(g, u)].body.score

\* C2: the level-0 chain holds exactly one node per user written (and none
\* for a user not written).
C2_OneNodePerUser ==
  \A g \in Instances : \A u \in UserIds :
    NodesOf(g, u) = (IF AcceptedWrites(g, u) # {} THEN 1 ELSE 0)

\* row x ranks strictly before row y
RanksBefore(x, y) ==
  \/ x.score > y.score
  \/ (x.score = y.score /\ StrLess(x.user_id, y.user_id))

\* C3: for every k, the rows of topK(k) are in strict ranking order: each
\* row has a higher score than the next, or the same score and a smaller
\* user_id.
C3_TopKStrictlyOrdered ==
  \A g \in Instances : \A k \in 0..Len(skipList[g].nodes) :
    LET rows == GetTopK(skipList[g], k)
    IN  \A i \in 1..(Len(rows) - 1) : RanksBefore(rows[i], rows[i + 1])

\* C3's case: a shard whose index took a fresh insert and an in-place score
\* update, and now shows two rows with the same score.
C3_Witness ==
  \E g \in Instances :
    LET rows == GetTopK(skipList[g], Len(skipList[g].nodes))
        writes == UNION {AcceptedWrites(g, u) : u \in UserIds}
    IN  /\ Cardinality(writes) > Len(skipList[g].nodes) - 1
        /\ \E i \in 1..(Len(rows) - 1) : rows[i].score = rows[i + 1].score

\* C4: in topK(n), n at least the number of users, rows[i].rank is i+1
\* (0-based i) and getUserRank of each row's user is that row's rank.
C4_RankIsPosition ==
  \A g \in Instances :
    LET rows == GetTopK(skipList[g], Len(skipList[g].nodes))
    IN  \A i \in 1..Len(rows) :
          /\ rows[i].rank = i
          /\ GetRank(skipList[g], rows[i].user_id) = rows[i].rank

\* The complete (newline-terminated) lines of a file's content.
CompleteLines(content) ==
  LET pieces == Split(content, "\n")
  IN  [i \in 1..(Len(pieces) - 1) |-> pieces[i] \o <<"\n">>]

\* Among the lines is a record of (u, s) for game g.
RecordIn(lines, g, u, s) ==
  \E i \in 1..Len(lines) : \E t \in 1..MaxRequests :
    lines[i] = LogLine([user_id |-> u, game_id |-> g, score |-> s, ctime |-> t])

\* C5: every (user_id, score) a read of the index can observe has a complete
\* record with the same (user_id, score) in the shard's WAL file.
C5_WalBeforeIndex ==
  \A g \in Instances :
    LET rows == GetTopK(skipList[g], Len(skipList[g].nodes))
        lines == CompleteLines(walFile[g].content)
    IN  \A i \in 1..Len(rows) : RecordIn(lines, g, rows[i].user_id, rows[i].score)

\* C5's case: the index shows rows while a later updateScore is still waiting
\* for its append.
C5_Witness ==
  \E g \in Instances :
    /\ Len(Level0(skipList[g])) >= 1
    /\ wal[g].queue # <<>>
    /\ ~wal[g].written

\* request i is answered 503 in this step
Answered503(i) ==
  /\ i \in 1..Len(requests')
  /\ requests'[i].status = Unavailable
  /\ (i > Len(requests) \/ requests[i].status # Unavailable)

\* C6: when WAL.append fails for an updateScore call (its writeQueue promise
\* rejects), the caller gets the error (the handler answers 503) and the
\* index is exactly as before.
C6_FailedAppendLeavesIndex ==
  [][/\ \A g \in Instances \cap Instances' :
          (~wal[g].rejected /\ wal'[g].rejected) =>
             /\ \A k \in 1..Len(wal[g].queue) : Answered503(wal[g].queue[k])
             /\ skipList' = skipList
     /\ (\E i \in 1..MaxRequests : Answered503(i)) => skipList' = skipList]_vars

\* C6's case: an append has failed on a shard whose index holds rows.
C6_Witness ==
  \E i \in 1..Len(requests) :
    /\ requests[i].status = Unavailable
    /\ requests[i].proc = crashes
    /\ Len(Level0(skipList[requests[i].body.game_id])) >= 1

\* The shard of game g has been obtained in the running process and no score
\* request for g has arrived in it.
Fresh(g) ==
  /\ g \in Instances
  /\ \A i \in 1..Len(requests) :
       ("game_id" \in DOMAIN requests[i].body /\ requests[i].body.game_id = g)
         => requests[i].proc # crashes

\* C7: once a shard has been obtained in a fresh process, for every user in
\* the WAL the index shows the last score recorded for that user.
C7_IndexReflectsWal ==
  \A g \in GameIds :
    Fresh(g) =>
      LET es == WalRecover(walFile[g])
      IN  \A i \in 1..Len(es) :
            (\A j \in (i + 1)..Len(es) : es[j].user_id # es[i].user_id)
              => GetScore(skipList[g], es[i].user_id) = es[i].score

\* C8: after a kill that follows all acknowledgements and a restart, topK(k),
\* scoreOf and rankOf are what they were immediately before the kill.
C8_RestartPreservesReads ==
  \A g \in GameIds :
    (Fresh(g) /\ crashes > 0 /\ beforeKill.quiet) =>
      LET old == beforeKill.rows[g]
          new == GetTopK(skipList[g], Len(skipList[g].nodes))
      IN  /\ \A k \in 0..Len(old) : GetTopK(skipList[g], k) = SubSeq(old, 1, k)
          /\ \A u \in UserIds : \A i \in 1..Len(old) :
               (old[i].user_id = u /\ \A j \in 1..(i - 1) : old[j].user_id # u)
                  => /\ GetScore(skipList[g], u) = old[i].score
                     /\ GetRank(skipList[g], u) = old[i].rank

\* C9: a submission is acknowledged with 202 only when its complete record
\* is in the shard's WAL file, and the record stays there after a kill.
C9_AckedIsInFile ==
  \A g \in GameIds :
    LET lines == CompleteLines(walFile[g].content)
    IN  \A i \in 1..Len(requests) :
          (requests[i].status = Accepted /\ requests[i].body.game_id = g) =>
            \E k \in 1..Len(lines) : lines[k] = LogLine(ScoreDetails(requests[i]))

\* C9's case: the process was killed after an acknowledgement.
C9_Witness ==
  \E i \in 1..Len(requests) : requests[i].status = Accepted /\ requests[i].proc < crashes

\* The records of g's WAL file that an updateScore of the running process is
\* not still waiting on.
SettledEntries(g) ==
  LET es == WalRecover(walFile[g])
  IN  IF g \in Instances /\ wal[g].written THEN SubSeq(es, 1, Len(es) - 1) ELSE es

\* C10: a shard that can be read or written has its WAL replayed: every
\* user recorded in the WAL is in the index.
C10_NoServiceBeforeReplay ==
  \A g \in Instances :
    \A i \in 1..Len(SettledEntries(g)) : NodesOf(g, SettledEntries(g)[i].user_id) >= 1

\* C15: getTopK(0) returns the empty list, and getTopK(k) with k < 0 is
\* rejected (it throws) instead of returning a list.
C15_TopKZeroAndNegative ==
  reply.op = "topK" =>
    /\ (reply.k = 0 => (~reply.thrown /\ reply.rows = <<>>))
    /\ (reply.k < 0 => reply.thrown)

\* The body lacks user_id, game_id or score.
LacksField(body) ==
  \/ isNullOrUndefined(body, "user_id")
  \/ isNullOrUndefined(body, "game_id")
  \/ isNullOrUndefined(body, "score")

\* C12: a POST /score whose body lacks user_id, game_id or score is answered
\* 400, and the step changes neither a WAL file nor an index.
C12_MissingFieldsAnswered400 ==
  [][(Len(requests') = Len(requests) + 1 /\ LacksField(requests'[Len(requests')].body)) =>
       /\ requests'[Len(requests')].status = BadRequest
       /\ walFile' = walFile
       /\ skipList' = skipList]_vars

\* C13: every submission that passed the field check is being processed, or
\* was answered 202 with its record in the WAL and its user in the index, or
\* was answered 503; none is left without a response.
C13_NoSilentDrop ==
  \A i \in 1..Len(requests) :
    ~LacksField(requests[i].body) =>
      LET g == requests[i].body.game_id
      IN  \/ requests[i].pc = "appending"
          \/ /\ requests[i].status = Accepted
             /\ \E k \in 1..Len(CompleteLines(walFile[g].content)) :
                  CompleteLines(walFile[g].content)[k] = LogLine(ScoreDetails(requests[i]))
             /\ requests[i].proc = crashes => NodesOf(g, requests[i].body.user_id) >= 1
          \/ requests[i].status = Unavailable

\* An entry updateScore has to refuse: an empty identifier or a negative score.
InvalidEntry(body) == body.user_id = <<>> \/ body.game_id = <<>> \/ body.score < 0

\* C14: an entry with an empty user_id, an empty game_id or a negative score
\* is rejected by updateScore before anything else: it is never acknowledged,
\* no WAL record is appended for it and the index gets no node for it.
C14_InvalidEntryRejected ==
  \A i \in 1..Len(requests) :
    (~LacksField(requests[i].body) /\ InvalidEntry(requests[i].body)) =>
      LET b == requests[i].body
          lines == CompleteLines(walFile[b.game_id].content)
          sl == skipList[b.game_id]
      IN  /\ requests[i].status # Accepted
          /\ \A k \in 1..Len(lines) : lines[k] # LogLine(ScoreDetails(requests[i]))
          /\ \A r \in 1..Len(Level0(sl)) :
               ~(sl.nodes[Level0(sl)[r]].user_id = b.user_id
                 /\ sl.nodes[Level0(sl)[r]].score = b.score)

\* The value getRank and getScore return for a user they do not find.
NotFound == -1

\* C16: getUserRank(U) and getUserScore(U) are NotFound exactly when no write
\* for U has been applied to the shard, and topK is empty on an empty shard.
C16_NotFoundIffNeverWritten ==
  \A g \in Instances :
    /\ \A u \in UserIds :
         /\ (GetScore(skipList[g], u) = NotFound) <=> (AcceptedWrites(g, u) = {})
         /\ (GetRank(skipList[g], u) = NotFound) <=> (AcceptedWrites(g, u) = {})
    /\ (\A u \in AnyUserIds : AcceptedWrites(g, u) = {})
          => GetTopK(skipList[g], MaxRequests) = <<>>

\* C17: for every accepted entry, replaying the WAL yields an entry with the
\* same user_id, the same score and the same ctime.
C17_WalRoundTrip ==
  \A i \in 1..Len(requests) :
    requests[i].status = Accepted =>
      LET es == WalRecover(walFile[requests[i].body.game_id])
      IN  \E k \in 1..Len(es) :
            /\ es[k].user_id = requests[i].body.user_id
            /\ es[k].score # NaN
            /\ es[k].score = requests[i].body.score
            /\ es[k].ctime # NaN
            /\ es[k].ctime = requests[i].ctime

\* The request whose record the line is, 0 when the line is no one's record.
WriterOf(line) ==
  IF \E i \in 1..Len(requests) :
       ~LacksField(requests[i].body) /\ LogLine(ScoreDetails(requests[i])) = line
  THEN CHOOSE i \in 1..Len(requests) :
       ~LacksField(requests[i].body) /\ LogLine(ScoreDetails(requests[i])) = line
  ELSE 0

\* C18: replay yields the well-formed records in file order, yields nothing
\* for a truncated last line, and yields the empty sequence when the file
\* does not exist.
C18_ReplaySkipsTruncatedTail ==
  \A g \in GameIds :
    LET es == WalRecover(walFile[g])
        lines == CompleteLines(walFile[g].content)
    IN  /\ ~walFile[g].exists => es = <<>>
        /\ Len(es) <= Len(lines)
        /\ \A k \in 1..Len(lines) :
             WriterOf(lines[k]) # 0 =>
               /\ k <= Len(es)
               /\ es[k].user_id = requests[WriterOf(lines[k])].body.user_id
               /\ es[k].score = requests[WriterOf(lines[k])].body.score

\* The order half of C19: the record of the write applied to the index in a
\* step is the last record committed to the shard's WAL at that moment.
AppliedInCommitOrder ==
  [][\A i \in 1..Len(requests) :
       (requests[i].status # Accepted /\ requests'[i].status = Accepted) =>
          LET lines == CompleteLines(walFile[requests[i].body.game_id].content)
          IN  /\ lines # <<>>
              /\ lines[Len(lines)] = LogLine(ScoreDetails(requests[i]))]_vars

\* C19: writes to one user are applied in WAL-commit order, so once no
\* updateScore is in progress the index score of every user in the WAL is the
\* score of the user's last WAL record.
C19_IndexScoreIsLastWalRecord ==
  Quiet =>
    \A g \in Instances :
      LET es == WalRecover(walFile[g])
      IN  \A i \in 1..Len(es) :
            (\A j \in (i + 1)..Len(es) : es[j].user_id # es[i].user_id)
              => GetScore(skipList[g], es[i].user_id) = es[i].score

\* The record of request i is in g's file: its appendFile has written it.
Written(g, i) ==
  /\ ~LacksField(requests[i].body)
  /\ requests[i].body.game_id = g
  /\ \/ requests[i].status = Accepted
     \/ (wal[g].queue # <<>> /\ Head(wal[g].queue) = i /\ wal[g].written)

\* The records of the first n requests that are written, in the order
\* append was called.
RECURSIVE RecordsUpTo(_, _)
RecordsUpTo(g, n) ==
  IF n = 0 THEN <<>>
  ELSE RecordsUpTo(g, n - 1)
         \o (IF Written(g, n) THEN LogLine(ScoreDetails(requests[n])) ELSE <<>>)

\* C20: the content of a shard's WAL file is the concatenation of the whole
\* records written so far in the order append was called, and no record is
\* written before the record of an earlier call has been written or has failed.
C20_AppendsSerialized ==
  \A g \in GameIds :
    /\ walFile[g].content = RecordsUpTo(g, Len(requests))
    /\ \A i, j \in 1..Len(requests) :
         (i < j /\ Written(g, j) /\ ~LacksField(requests[i].body)
            /\ requests[i].body.game_id = g)
           => (Written(g, i) \/ requests[i].status = Unavailable)

\* C20's case: two records are in the file and the second was written while
\* a later append call was waiting behind it.
C20_Witness ==
  \E g \in Instances :
    /\ Len(wal[g].queue) >= 2
    /\ wal[g].written
    /\ Len(CompleteLines(walFile[g].content)) >= 2

\* C11: every getInstance for a game returns the same engine object, at most
\* one object is constructed per game, and the object stays registered.
C11_RegistryIdentity ==
  \A g \in GameIds :
    /\ Cardinality(got[g]) <= 1
    /\ Cardinality({e \in 1..Len(engines) : engines[e].gameId = g}) <= 1
    /\ got[g] # {} => instances[g] \in got[g]

\* C21: a failed append is retryable. An updateScore issued on a shard after
\* an earlier append on it has failed, when the data directory exists and no
\* append is in progress (the fault has cleared), is not refused at once: it
\* is chained for its own file write and is not answered 503 at the call.
C21_FailedAppendIsRetryable ==
  [][(dataDir /\ Len(requests') = Len(requests) + 1 /\ \A g \in GameIds : wal[g].queue = <<>>)
       => requests'[Len(requests')].status # Unavailable]_vars

\* C23: the data directory is created before the first WAL write. With no
\* I/O fault injected, no append runs while the mkdir started by the WAL
\* constructor is still pending, so no updateScore fails: no request is
\* answered 503.
C23_DirectoryBeforeFirstWrite ==
  faults = 0 => \A i \in 1..Len(requests) : requests[i].status # Unavailable

\* What the read recorded in r returns on the index sl.
ReadResult(sl, r) ==
  CASE r.op = "topK" -> [r EXCEPT !.rows = GetTopK(sl, r.k)]
    [] r.op = "rank" -> [r EXCEPT !.value = GetRank(sl, r.user)]
    [] r.op = "score" -> [r EXCEPT !.value = GetScore(sl, r.user)]
    [] OTHER -> r

\* C24: reads have no effect. A step in which topK, rankOf or scoreOf
\* returns leaves the skip list, the WAL object and the WAL file as they
\* were, and the same read made again right after it returns the same result.
C24_ReadsHaveNoEffect ==
  [][reply' # reply =>
       /\ skipList' = skipList
       /\ wal' = wal
       /\ walFile' = walFile
       /\ \A g \in GameIds : ReadResult(skipList'[g], reply') = reply']_vars

\* Each of the three reads has returned a stored score on an index of two users.
C24_Witness ==
  \E g \in GameIds :
    /\ Len(Level0(skipList[g])) = 2
    /\ walFile[g].content # <<>>
    /\ \/ reply.op = "topK" /\ Len(reply.rows) = 2
       \/ reply.op = "rank" /\ reply.value = 2
       \/ reply.op = "score" /\ reply.value = 1

\* The step changes the index, the WAL object or the WAL file of game a.
Touches(a) == skipList'[a] # skipList[a] \/ wal'[a] # wal[a] \/ walFile'[a] # walFile[a]

\* C25: shards are independent. A step on the shard of game a (updateScore,
\* construction, an append or its failure) leaves the index, the WAL and
\* the requests of every other game b as they were, and every row of shard
\* a's topK carries game_id a.
C25_ShardsIndependent ==
  /\ [][\A a \in AllGameIds : \A b \in AllGameIds \ {a} :
          Touches(a) =>
            /\ ~Touches(b)
            /\ \A i \in 1..Len(requests) :
                 requests[i].body.game_id = b => requests'[i] = requests[i]]_vars
  /\ [](\A a \in AllGameIds :
          LET rows == GetTopK(skipList[a], Len(skipList[a].nodes))
          IN  \A r \in 1..Len(rows) : rows[r].game_id = a)

\* Both shards hold a score and an append has failed on one of them.
C25_Witness ==
  \E a \in AllGameIds : \E b \in AllGameIds \ {a} :
    /\ wal[a].rejected
    /\ Level0(skipList[a]) # <<>>
    /\ Level0(skipList[b]) # <<>>
    /\ walFile[b].content # <<>>

\* The updateScore calls for user u that resolved, in any process.
ResolvedCalls(u) == {i \in 1..Len(calls) : calls[i].pc = "resolved" /\ calls[i].userId = u}

LastResolved(u) == CHOOSE i \in ResolvedCalls(u) : \A j \in ResolvedCalls(u) : j <= i

\* C22: checkpoints preserve state across a restart. In a restarted process
\* that has made no updateScore call yet, once a shard's recovery has
\* finished every user whose updateScore resolved before the restart, before
\* or after a checkpoint, has the score of their last write.
C22_CheckpointPreservesState ==
  \A e \in 1..Len(engines) :
    (/\ engines[e].recovery.pc = "done"
     /\ \A i \in 1..Len(calls) : calls[i].proc < crashes)
    => \A u \in UserIds :
         ResolvedCalls(u) # {}
         => DummyGetUserScore(engines[e], u) = calls[LastResolved(u)].score

\* The complete lines of a file.
LinesOf(file) ==
  LET lines == CompleteLines(file.content) IN {lines[i] : i \in 1..Len(lines)}

\* C26: a checkpoint does not lose concurrent writes. Whatever the
\* interleaving of checkpoint() with appends, the record of every updateScore
\* whose append resolved is in the WAL file or in the checkpoint file.
C26_CheckpointKeepsAppends ==
  \A i \in 1..Len(calls) :
    calls[i].pc = "resolved"
    => \/ DummyLogLine(calls[i]) \in LinesOf(walFile[calls[i].gameId])
       \/ DummyLogLine(calls[i]) \in LinesOf(checkpointFile[calls[i].gameId])

\* The scores engine eng's topK shows for user u.
TopKScores(eng, u) ==
  LET rows == DummyGetTopK(eng, Len(eng.skipList.nodes))
  IN  {rows[r].score : r \in {q \in 1..Len(rows) : rows[q].user_id = u}}

\* C27: a write acknowledged while the WAL replay is still running is not
\* overwritten by the replay. Once the shard's recover() has finished and
\* no call is in progress, a user whose updateScore(U, s) resolved in this
\* process has getUserScore(U) = s and s in every topK row for U.
C27_ReplayKeepsNewerWrite ==
  \A e \in 1..Len(engines) : \A i \in 1..Len(calls) :
    (/\ engines[e].recovery.pc = "done"
     /\ engines[e].wal.queue = <<>>
     /\ calls[i].pc = "resolved"
     /\ calls[i].proc = crashes
     /\ calls[i].engine = e
     /\ i = LastResolved(calls[i].userId))
    => /\ DummyGetUserScore(engines[e], calls[i].userId) = calls[i].score
       /\ TopKScores(engines[e], calls[i].userId) = {calls[i].score}

\* The user ids of the level-0 chain of a skip list.
ChainUsers(sl) == {sl.nodes[n].user_id : n \in {Level0(sl)[r] : r \in 1..Len(Level0(sl))}}

\* C28: userScores and the skip list agree. In every state of every engine
\* the users of userScores are the users of the level-0 chain, and every
\* topK row for a user carries the score getUserScore returns for them.
C28_SideMapAgreesWithSkipList ==
  \A e \in 1..Len(engines) :
    /\ DOMAIN engines[e].userScores = ChainUsers(engines[e].skipList)
    /\ \A u \in ChainUsers(engines[e].skipList) :
         TopKScores(engines[e], u) = {DummyGetUserScore(engines[e], u)}


====
